---- MODULE Spec2Model ----
(***************************************************************************)
(* Model of cnn_models.py: the factory getKerasModel and the five builders *)
(* HuEtAl, LiuEtAl, LucasCNN, LucasResNet and LucasCoordConv.              *)
(*                                                                         *)
(* A layer call of the functional API, x = Layer(...)(t), appends one node *)
(* to the sequence `layers`; a node's identity is its index.  Each node    *)
(* carries the output shape (batch axis left out) that the layer's shape   *)
(* rule gives for the shapes of its inbound nodes.  A shape rule that      *)
(* rejects its input raises, and the exception leaves the builder and the  *)
(* factory.                                                                *)
(***************************************************************************)
EXTENDS Integers, Sequences, FiniteSets, TLC

\* Number of factory calls explored.
MaxCalls == 2

VARIABLES pc, model_name, layers, returned, stdout, sys_modules, coord_importable

vars == <<pc, model_name, layers, returned, stdout, sys_modules, coord_importable>>

\* The five names the factory compares its argument with.
RecognizedNames == {"LucasCNN", "HuEtAl", "LiuEtAl", "LucasResNet", "LucasCoordConv"}

\* Arguments that are equal to none of the five names.
OtherNames == {"lucascnn", "LucasCNN ", "", "CoordConv"}

ModelNames == RecognizedNames \cup OtherNames

Range(s) == {s[i] : i \in DOMAIN s}

RECURSIVE Product(_)
Product(s) == IF s = <<>> THEN 1 ELSE s[1] * Product(Tail(s))

RECURSIVE Sum(_)
Sum(s) == IF s = <<>> THEN 0 ELSE s[1] + Sum(Tail(s))

(***************************************************************************)
(* Python arithmetic                                                       *)
(***************************************************************************)

\* a // b for b > 0: floor division.
floordiv(a, b) == a \div b

\* int(a / b) computed to the nearest integer instead of truncated.
int_truediv_round(a, b) == (2 * a + b) \div (2 * b)

\* int(a / b) for b > 0: true division, then truncation toward zero.
int_truediv(a, b) == IF a >= 0 THEN a \div b ELSE -((-a) \div b)

(***************************************************************************)
(* Frame of a builder: the layers that exist, the builder's local tensors   *)
(* inp, x and inp_res (a layer's index, 0 while unbound), the pending      *)
(* exception ("" when none) and the modules the builder imported.          *)
(***************************************************************************)

Node(kind, n, k, activation, padding, inbound, shape) ==
    [kind |-> kind, n |-> n, k |-> k, activation |-> activation,
     padding |-> padding, inbound |-> inbound, shape |-> shape]

New(heap) ==
    [layers |-> heap, inp |-> 0, x |-> 0, inp_res |-> 0, exc |-> "", imports |-> <<>>]

\* out = Layer(...)(...): the new layer is appended and bound to the local out.
Add(b, out, node) ==
    [b EXCEPT !.layers = Append(@, node), ![out] = Len(b.layers) + 1]

Raise(b, e) == [b EXCEPT !.exc = e]

\* from coord import CoordinateChannel1D
Import(b, module, importable) ==
    IF b.exc # "" THEN b
    ELSE IF importable THEN [b EXCEPT !.imports = Append(@, module)]
    ELSE [b EXCEPT !.imports = Append(@, module), !.exc = "ImportError"]

(***************************************************************************)
(* Layer shape rules                                                       *)
(***************************************************************************)

\* Output length that takes every padding mode for "valid".
conv_output_length_valid(input_length, filter_size, padding, stride) ==
    (input_length - filter_size + 1 + stride - 1) \div stride

\* Output length of a window of filter_size moved by stride.
conv_output_length(input_length, filter_size, padding, stride) ==
    LET output_length == IF padding = "same" THEN input_length
                         ELSE input_length - filter_size + 1
    IN  (output_length + stride - 1) \div stride

\* An Input that hands out the input tensor made first instead of a new one.
Input_shared(b, out, shape) ==
    IF b.exc # "" THEN b
    ELSE IF Len(b.layers) > 0 THEN [b EXCEPT ![out] = 1]
    ELSE Add(b, out, Node("Input", 0, 0, "", "", <<>>, shape))

Input(b, out, shape) ==
    IF b.exc # "" THEN b
    ELSE Add(b, out, Node("Input", 0, 0, "", "", <<>>, shape))

Conv1D(b, out, t, filters, kernel_size, activation, padding) ==
    IF b.exc # "" THEN b
    ELSE LET s == b.layers[b[t]].shape
             steps == conv_output_length(s[1], kernel_size, padding, 1)
         IN  IF Len(s) # 2 \/ steps < 1 THEN Raise(b, "ValueError")
             ELSE Add(b, out, Node("Conv1D", filters, kernel_size, activation,
                              padding, <<b[t]>>, <<steps, filters>>))

\* A pooling layer built with padding="same".
MaxPooling1D_same(b, out, t, pool_size) ==
    IF b.exc # "" THEN b
    ELSE LET s == b.layers[b[t]].shape
             steps == conv_output_length(s[1], pool_size, "same", pool_size)
         IN  IF Len(s) # 2 \/ steps < 1 THEN Raise(b, "ValueError")
             ELSE Add(b, out, Node("MaxPooling1D", 0, pool_size, "", "same",
                              <<b[t]>>, <<steps, s[2]>>))

\* MaxPooling1D(pool_size): strides default to pool_size, padding to "valid".
MaxPooling1D(b, out, t, pool_size) ==
    IF b.exc # "" THEN b
    ELSE LET s == b.layers[b[t]].shape
             steps == conv_output_length(s[1], pool_size, "valid", pool_size)
         IN  IF Len(s) # 2 \/ steps < 1 THEN Raise(b, "ValueError")
             ELSE Add(b, out, Node("MaxPooling1D", 0, pool_size, "", "valid",
                              <<b[t]>>, <<steps, s[2]>>))

\* A Flatten that passes its input shape through.
Flatten_keep(b, out, t) ==
    IF b.exc # "" THEN b
    ELSE Add(b, out, Node("Flatten", 0, 0, "", "", <<b[t]>>, b.layers[b[t]].shape))

Flatten(b, out, t) ==
    IF b.exc # "" THEN b
    ELSE Add(b, out, Node("Flatten", 0, 0, "", "", <<b[t]>>,
                     <<Product(b.layers[b[t]].shape)>>))

\* Dense acts on the last axis.
Dense(b, out, t, units, activation) ==
    IF b.exc # "" THEN b
    ELSE LET s == b.layers[b[t]].shape
         IN  Add(b, out, Node("Dense", units, 0, activation, "", <<b[t]>>,
                         [s EXCEPT ![Len(s)] = units]))

\* Reshape keeps the number of elements or raises.
Reshape(b, out, t, target_shape) ==
    IF b.exc # "" THEN b
    ELSE IF Product(b.layers[b[t]].shape) # Product(target_shape)
         THEN Raise(b, "ValueError")
         ELSE Add(b, out, Node("Reshape", 0, 0, "", "", <<b[t]>>, target_shape))

\* A Concatenate wired to its first input alone.
Concatenate_first(b, out, ts) ==
    IF b.exc # "" THEN b
    ELSE Add(b, out, Node("Concatenate", 0, 0, "", "", <<b[ts[1]]>>,
                     b.layers[b[ts[1]]].shape))

\* Concatenate(axis=-1): the inputs agree on every axis but the last.
Concatenate(b, out, ts) ==
    IF b.exc # "" THEN b
    ELSE LET s == b.layers[b[ts[1]]].shape
             r == Len(s)
             ok == \A i \in DOMAIN ts :
                     /\ Len(b.layers[b[ts[i]]].shape) = r
                     /\ \A a \in 1..(r - 1) : b.layers[b[ts[i]]].shape[a] = s[a]
             last == Sum([i \in DOMAIN ts |-> b.layers[b[ts[i]]].shape[r]])
         IN  IF ~ok THEN Raise(b, "ValueError")
             ELSE Add(b, out, Node("Concatenate", 0, 0, "", "",
                                   [i \in DOMAIN ts |-> b[ts[i]]],
                                   [s EXCEPT ![r] = last]))

\* CoordinateChannel1D appends one coordinate channel on the last axis.
CoordinateChannel1D(b, out, t) ==
    IF b.exc # "" THEN b
    ELSE LET s == b.layers[b[t]].shape
         IN  Add(b, out, Node("CoordinateChannel1D", 0, 0, "", "", <<b[t]>>,
                         [s EXCEPT ![Len(s)] = s[Len(s)] + 1]))

\* Model(inputs=inp, outputs=x): what the builder hands back.
Model(b, inp, x) ==
    [layers |-> b.layers, exc |-> b.exc, imports |-> b.imports,
     inputs |-> IF b.exc = "" THEN b[inp] ELSE 0,
     outputs |-> IF b.exc = "" THEN b[x] ELSE 0]

(***************************************************************************)
(* The five builders.  Each takes the layers that exist and returns them   *)
(* extended by the layers it creates, with the input and output tensors.   *)
(***************************************************************************)

\* HuEtAl without its hidden fully connected layer.
HuEtAl_noHidden(heap) ==
    LET seq_length == 256
        kernel_size == floordiv(seq_length, 9)
        pool_size == int_truediv(seq_length - kernel_size + 1, 35)
        inp == Input(New(heap), "inp", <<seq_length, 1>>)
        c1 == Conv1D(inp, "x", "inp", 20, kernel_size, "tanh", "valid")
        p1 == MaxPooling1D(c1, "x", "x", pool_size)
        fl == Flatten(p1, "x", "x")
        d2 == Dense(fl, "x", "x", 4, "softmax")
    IN  Model(d2, "inp", "x")

HuEtAl(heap) ==
    LET seq_length == 256
        kernel_size == floordiv(seq_length, 9)
        pool_size == int_truediv(seq_length - kernel_size + 1, 35)
        inp == Input(New(heap), "inp", <<seq_length, 1>>)
        c1 == Conv1D(inp, "x", "inp", 20, kernel_size, "tanh", "valid")
        p1 == MaxPooling1D(c1, "x", "x", pool_size)
        fl == Flatten(p1, "x", "x")
        d1 == Dense(fl, "x", "x", 100, "tanh")
        d2 == Dense(d1, "x", "x", 4, "softmax")
    IN  Model(d2, "inp", "x")

LiuEtAl(heap) ==
    LET seq_length == 256
        kernel_size == 3
        inp == Input(New(heap), "inp", <<seq_length, 1>>)
        c1 == Conv1D(inp, "x", "inp", 32, kernel_size, "relu", "valid")
        p1 == MaxPooling1D(c1, "x", "x", 2)
        c2 == Conv1D(p1, "x", "x", 32, kernel_size, "relu", "valid")
        p2 == MaxPooling1D(c2, "x", "x", 2)
        c3 == Conv1D(p2, "x", "x", 64, kernel_size, "relu", "valid")
        p3 == MaxPooling1D(c3, "x", "x", 2)
        c4 == Conv1D(p3, "x", "x", 64, kernel_size, "relu", "valid")
        p4 == MaxPooling1D(c4, "x", "x", 2)
        fl == Flatten(p4, "x", "x")
        d1 == Dense(fl, "x", "x", 4, "softmax")
    IN  Model(d1, "inp", "x")

LucasCNN(heap) ==
    LET seq_length == 256
        kernel_size == 3
        activation == "relu"
        padding == "valid"
        inp == Input(New(heap), "inp", <<seq_length, 1>>)
        c1 == Conv1D(inp, "x", "inp", 32, kernel_size, activation, padding)
        p1 == MaxPooling1D(c1, "x", "x", 2)
        c2 == Conv1D(p1, "x", "x", 32, kernel_size, activation, padding)
        p2 == MaxPooling1D(c2, "x", "x", 2)
        c3 == Conv1D(p2, "x", "x", 64, kernel_size, activation, padding)
        p3 == MaxPooling1D(c3, "x", "x", 2)
        c4 == Conv1D(p3, "x", "x", 64, kernel_size, activation, padding)
        p4 == MaxPooling1D(c4, "x", "x", 2)
        fl == Flatten(p4, "x", "x")
        d1 == Dense(fl, "x", "x", 120, activation)
        d2 == Dense(d1, "x", "x", 160, activation)
        d3 == Dense(d2, "x", "x", 4, "softmax")
    IN  Model(d3, "inp", "x")

LucasResNet(heap) ==
    LET seq_length == 256
        kernel_size == 3
        activation == "relu"
        padding == "same"
        inp == Input(New(heap), "inp", <<seq_length, 1>>)
        c1 == Conv1D(inp, "x", "inp", 32, kernel_size, activation, padding)
        p1 == MaxPooling1D(c1, "x", "x", 2)
        c2 == Conv1D(p1, "x", "x", 32, kernel_size, activation, padding)
        p2 == MaxPooling1D(c2, "x", "x", 2)
        c3 == Conv1D(p2, "x", "x", 64, kernel_size, activation, padding)
        p3 == MaxPooling1D(c3, "x", "x", 2)
        c4 == Conv1D(p3, "x", "x", 64, kernel_size, activation, padding)
        p4 == MaxPooling1D(c4, "x", "x", 2)
        inp_res == Reshape(p4, "inp_res", "inp", <<16, 16>>)
        cat == Concatenate(inp_res, "x", <<"x", "inp_res">>)
        fl == Flatten(cat, "x", "x")
        d1 == Dense(fl, "x", "x", 150, activation)
        d2 == Dense(d1, "x", "x", 100, activation)
        d3 == Dense(d2, "x", "x", 4, "softmax")
    IN  Model(d3, "inp", "x")

LucasCoordConv(heap, importable) ==
    LET imp == Import(New(heap), "coord", importable)
        seq_length == 256
        kernel_size == 3
        activation == "relu"
        padding == "valid"
        inp == Input(imp, "inp", <<seq_length, 1>>)
        cc == CoordinateChannel1D(inp, "x", "inp")
        c1 == Conv1D(cc, "x", "x", 32, kernel_size, activation, padding)
        p1 == MaxPooling1D(c1, "x", "x", 2)
        c2 == Conv1D(p1, "x", "x", 64, kernel_size, activation, padding)
        p2 == MaxPooling1D(c2, "x", "x", 2)
        c3 == Conv1D(p2, "x", "x", 64, kernel_size, activation, padding)
        p3 == MaxPooling1D(c3, "x", "x", 2)
        c4 == Conv1D(p3, "x", "x", 128, kernel_size, activation, padding)
        p4 == MaxPooling1D(c4, "x", "x", 2)
        fl == Flatten(p4, "x", "x")
        d1 == Dense(fl, "x", "x", 256, activation)
        d2 == Dense(d1, "x", "x", 128, activation)
        d3 == Dense(d2, "x", "x", 4, "softmax")
    IN  Model(d3, "inp", "x")

(***************************************************************************)
(* The factory                                                             *)
(***************************************************************************)

\* A chain that compares the names of HuEtAl and LiuEtAl the wrong way round.
Dispatch_swapped(name) ==
    IF name = "LucasCNN" THEN "LucasCNN"
    ELSE IF name = "LiuEtAl" THEN "HuEtAl"
    ELSE IF name = "HuEtAl" THEN "LiuEtAl"
    ELSE IF name = "LucasResNet" THEN "LucasResNet"
    ELSE IF name = "LucasCoordConv" THEN "LucasCoordConv"
    ELSE "None"

\* A chain whose last builder is the fall-through case.
Dispatch_default(name) ==
    IF name = "LucasCNN" THEN "LucasCNN"
    ELSE IF name = "HuEtAl" THEN "HuEtAl"
    ELSE IF name = "LiuEtAl" THEN "LiuEtAl"
    ELSE IF name = "LucasResNet" THEN "LucasResNet"
    ELSE "LucasCoordConv"

\* The chain of string comparisons: the builder called, or "None".
Dispatch(name) ==
    IF name = "LucasCNN" THEN "LucasCNN"
    ELSE IF name = "HuEtAl" THEN "HuEtAl"
    ELSE IF name = "LiuEtAl" THEN "LiuEtAl"
    ELSE IF name = "LucasResNet" THEN "LucasResNet"
    ELSE IF name = "LucasCoordConv" THEN "LucasCoordConv"
    ELSE "None"

\* "Error: Model {0} not implemented.".format(model_name)
ErrorMessage(name) == <<"Error: Model ", name, " not implemented.">>

\* What one completed call left: the value returned or the exception raised.
Result(name, builder, m, first) ==
    [name |-> name, builder |-> builder,
     kind |-> IF m.exc = "" THEN "Model" ELSE "raised",
     exc |-> m.exc, imports |-> m.imports,
     inputs |-> m.inputs, outputs |-> m.outputs,
     first |-> first,
     last |-> IF m.exc = "" THEN Len(m.layers) ELSE first - 1]

NoneResult(name, first) ==
    [name |-> name, builder |-> "", kind |-> "None", exc |-> "",
     imports |-> <<>>, inputs |-> 0, outputs |-> 0,
     first |-> first, last |-> first - 1]

Init ==
    /\ pc = "idle"
    /\ model_name = ""
    /\ layers = <<>>
    /\ returned = <<>>
    /\ stdout = <<>>
    /\ sys_modules = {"tensorflow.keras.layers", "tensorflow.keras.models"}
    /\ coord_importable \in BOOLEAN

\* getKerasModel(model_name) up to the builder it calls; an unrecognized
\* name prints the message and returns None.
getKerasModel(name) ==
    /\ pc = "idle"
    /\ Len(returned) < MaxCalls
    /\ model_name' = name
    /\ IF Dispatch(name) = "None"
       THEN /\ stdout' = Append(stdout, ErrorMessage(name))
            /\ returned' = Append(returned, NoneResult(name, Len(layers) + 1))
            /\ pc' = "idle"
       ELSE /\ pc' = Dispatch(name)
            /\ UNCHANGED <<stdout, returned>>
    /\ UNCHANGED <<layers, sys_modules, coord_importable>>

\* The builder's result passes through getKerasModel to the caller; the
\* layers of a builder that raised are dropped with its frame.
Return(builder, m) ==
    /\ layers' = IF m.exc = "" THEN m.layers ELSE layers
    /\ returned' = Append(returned, Result(model_name, builder, m, Len(layers) + 1))
    /\ sys_modules' = sys_modules \cup
                      {m.imports[i] : i \in {j \in DOMAIN m.imports :
                                             ~(j = Len(m.imports) /\ m.exc = "ImportError")}}
    /\ pc' = "idle"
    /\ UNCHANGED <<model_name, stdout, coord_importable>>

return_LucasCNN == pc = "LucasCNN" /\ Return("LucasCNN", LucasCNN(layers))

return_HuEtAl == pc = "HuEtAl" /\ Return("HuEtAl", HuEtAl(layers))

return_LiuEtAl == pc = "LiuEtAl" /\ Return("LiuEtAl", LiuEtAl(layers))

\* LucasResNet with the coord import at the head of its body.
return_LucasResNet_importing ==
    /\ pc = "LucasResNet"
    /\ LET imp == Import(New(layers), "coord", coord_importable)
           m == LucasResNet(layers)
       IN  Return("LucasResNet",
                  IF imp.exc # "" THEN Model(imp, "inp", "x")
                  ELSE [m EXCEPT !.imports = imp.imports])

return_LucasResNet == pc = "LucasResNet" /\ Return("LucasResNet", LucasResNet(layers))

return_LucasCoordConv ==
    /\ pc = "LucasCoordConv"
    /\ Return("LucasCoordConv", LucasCoordConv(layers, coord_importable))

Next ==
    \/ \E name \in ModelNames : getKerasModel(name)
    \/ return_LucasCNN
    \/ return_HuEtAl
    \/ return_LiuEtAl
    \/ return_LucasResNet
    \/ return_LucasCoordConv

Spec == Init /\ [][Next]_vars

(***************************************************************************)
(* Reading the graphs of the completed calls                               *)
(***************************************************************************)

Models == {i \in DOMAIN returned : returned[i].kind = "Model"}

\* The layers created during the call, in creation order.
Ids(r) == [i \in 1..(r.last - r.first + 1) |-> r.first + i - 1]

Built(r) == r.first..r.last

OfKind(r, kind) == SelectSeq(Ids(r), LAMBDA n : layers[n].kind = kind)

Inbound(T) == UNION {Range(layers[n].inbound) : n \in T}

RECURSIVE Closure(_)
Closure(T) == IF Inbound(T) \subseteq T THEN T ELSE Closure(T \cup Inbound(T))

\* The layers a layer depends on.
Ancestors(n) == Closure(Inbound({n}))

\* The layers of a returned model: its output and all the output depends on.
GraphOf(r) == Closure({r.outputs})

\* The layers of a call with their indices counted from the call's first layer.
Canon(r) ==
    [i \in DOMAIN Ids(r) |->
        [layers[Ids(r)[i]] EXCEPT
            !.inbound = [k \in DOMAIN @ |-> @[k] - r.first + 1]]]

Filters(r) == [i \in DOMAIN OfKind(r, "Conv1D") |-> layers[OfKind(r, "Conv1D")[i]].n]

Paddings(r) == {layers[n].padding : n \in Range(OfKind(r, "Conv1D"))}

\* Units of the dense layers before the last one.
HiddenUnits(r) ==
    [i \in 1..(Len(OfKind(r, "Dense")) - 1) |-> layers[OfKind(r, "Dense")[i]].n]

\* Time length after the input and after every convolution and pooling.
TimeLengths(r) ==
    LET stages == SelectSeq(Ids(r), LAMBDA n :
                      layers[n].kind \in {"Input", "Conv1D", "MaxPooling1D"})
    IN  [i \in DOMAIN stages |-> layers[stages[i]].shape[1]]

ValidChain == <<256, 254, 127, 125, 62, 60, 30, 28, 14>>

C2_Unrecognized ==
    /\ \A i \in DOMAIN returned :
          LET r == returned[i]
          IN  r.name \notin RecognizedNames =>
                /\ r.kind = "None" /\ r.exc = "" /\ r.builder = ""
                /\ Built(r) = {}
                /\ i < Len(returned) => returned[i + 1].first = r.first
                /\ (i = Len(returned) /\ pc = "idle") => Len(layers) = r.first - 1
    /\ pc # "idle" => model_name \in RecognizedNames
    /\ LET none == SelectSeq(returned, LAMBDA r : r.name \notin RecognizedNames)
       IN  stdout = [i \in DOMAIN none |->
                        <<"Error: Model ", none[i].name, " not implemented.">>]

C2_Witness ==
    /\ Len(returned) = 2
    /\ returned[1].name = "LucasCNN" /\ returned[1].kind = "Model"
    /\ returned[2].name = "lucascnn" /\ returned[2].kind = "None"
    /\ Len(stdout) = 1

(***************************************************************************)
(* C3: a call with one of the five names runs the builder of that name and *)
(* no other, and what it returns is what that builder built.               *)
(***************************************************************************)
C3_Dispatch ==
    /\ pc # "idle" => pc = model_name /\ pc \in RecognizedNames
    /\ \A i \in DOMAIN returned :
          LET r == returned[i]
          IN  r.name \in RecognizedNames => r.builder = r.name

C3_Witness ==
    /\ Len(returned) = 2
    /\ returned[1].name = "HuEtAl" /\ returned[1].builder = "HuEtAl"
    /\ returned[2].name = "LiuEtAl" /\ returned[2].builder = "LiuEtAl"

(***************************************************************************)
(* C4: the layers a builder creates form an acyclic graph with one input   *)
(* layer and one output layer; the output is a Dense layer of 4 units with *)
(* softmax activation, created last; every other layer depends on the      *)
(* input and the output depends on it.                                     *)
(***************************************************************************)
C4_Graph ==
    \A i \in Models :
        LET r == returned[i]
        IN  /\ \A n \in Built(r) : n \notin Ancestors(n)
            /\ {n \in Built(r) : layers[n].kind = "Input"} = {r.inputs}
            /\ {n \in Built(r) : layers[n].inbound = <<>>} = {r.inputs}
            /\ {n \in Built(r) : \A m \in Built(r) : n \notin Range(layers[m].inbound)}
                 = {r.outputs}
            /\ r.outputs = r.last
            /\ layers[r.outputs].kind = "Dense"
            /\ layers[r.outputs].n = 4
            /\ layers[r.outputs].activation = "softmax"
            /\ \A n \in Built(r) \ {r.inputs} :
                  /\ r.inputs \in Ancestors(n)
                  /\ n \in GraphOf(r)

C4_Witness ==
    /\ Len(returned) = 2
    /\ returned[1].name = "LiuEtAl" /\ returned[1].kind = "Model"
    /\ returned[2].name = "LucasResNet" /\ returned[2].kind = "Model"
    /\ Len(layers[returned[2].last - 4].inbound) = 2

(***************************************************************************)
(* C5: in HuEtAl the kernel size is 256 // 9 = 28 and the pooling size is  *)
(* floor((256 - 28 + 1) / 35) = 6.                                         *)
(***************************************************************************)
C5_HuEtAl ==
    \A i \in DOMAIN returned :
        LET r == returned[i]
        IN  r.name = "HuEtAl" =>
              /\ r.kind = "Model"
              /\ Len(OfKind(r, "Conv1D")) = 1
              /\ Len(OfKind(r, "MaxPooling1D")) = 1
              /\ LET kernel_size == layers[OfKind(r, "Conv1D")[1]].k
                     pool_size == layers[OfKind(r, "MaxPooling1D")[1]].k
                 IN  /\ kernel_size = 28
                     /\ kernel_size = 256 \div 9
                     /\ pool_size = 6
                     /\ pool_size = (256 - kernel_size + 1) \div 35

C5_Witness ==
    \E i \in Models : returned[i].name = "HuEtAl" /\ layers[returned[i].first + 2].k = 6

(***************************************************************************)
(* C6: every LucasResNet call returns a graph in which the input (256, 1)  *)
(* is reshaped to (16, 16) with its 256 elements kept, the four poolings   *)
(* leave time lengths 128, 64, 32 and 16, and the concatenation of the     *)
(* last pooling (16, 64) with the reshaped input (16, 16) has shape        *)
(* (16, 80).                                                               *)
(***************************************************************************)
C6_ResNet ==
    \A i \in DOMAIN returned :
        LET r == returned[i]
        IN  r.name = "LucasResNet" =>
              /\ r.kind = "Model"
              /\ Len(OfKind(r, "Reshape")) = 1
              /\ Len(OfKind(r, "Concatenate")) = 1
              /\ Len(OfKind(r, "MaxPooling1D")) = 4
              /\ LET res == layers[OfKind(r, "Reshape")[1]]
                     cat == layers[OfKind(r, "Concatenate")[1]]
                     pools == OfKind(r, "MaxPooling1D")
                 IN  /\ res.inbound = <<r.inputs>>
                     /\ res.shape = <<16, 16>>
                     /\ Product(layers[r.inputs].shape) = 256
                     /\ Product(res.shape) = 256
                     /\ [k \in 1..4 |-> layers[pools[k]].shape[1]] = <<128, 64, 32, 16>>
                     /\ cat.inbound = <<pools[4], OfKind(r, "Reshape")[1]>>
                     /\ layers[pools[4]].shape = <<16, 64>>
                     /\ cat.shape = <<16, 80>>

C6_Witness ==
    \E i \in Models :
        /\ returned[i].name = "LucasResNet"
        /\ \E n \in Built(returned[i]) :
              layers[n].kind = "Concatenate" /\ layers[n].shape = <<16, 80>>

(***************************************************************************)
(* C7: the layers of each variant are those of the table: the number of    *)
(* convolutions, their filters and padding, one pooling right after each   *)
(* convolution and no other pooling, and the hidden dense layers.          *)
(***************************************************************************)
C7_Layers ==
    \A i \in Models :
        LET r == returned[i]
            convs == OfKind(r, "Conv1D")
        IN  /\ Len(OfKind(r, "MaxPooling1D")) = Len(convs)
            /\ \A k \in DOMAIN convs :
                  /\ layers[convs[k] + 1].kind = "MaxPooling1D"
                  /\ layers[convs[k] + 1].inbound = <<convs[k]>>
            /\ r.name = "HuEtAl" =>
                  /\ Len(convs) = 1
                  /\ HiddenUnits(r) = <<100>>
            /\ r.name = "LiuEtAl" =>
                  /\ Filters(r) = <<32, 32, 64, 64>>
                  /\ HiddenUnits(r) = <<>>
            /\ r.name = "LucasCNN" =>
                  /\ Filters(r) = <<32, 32, 64, 64>>
                  /\ Paddings(r) = {"valid"}
                  /\ HiddenUnits(r) = <<120, 160>>
            /\ r.name = "LucasResNet" =>
                  /\ Len(convs) = 4
                  /\ Paddings(r) = {"same"}
                  /\ HiddenUnits(r) = <<150, 100>>
            /\ r.name = "LucasCoordConv" =>
                  /\ Filters(r) = <<32, 64, 64, 128>>
                  /\ HiddenUnits(r) = <<256, 128>>

C7_Witness ==
    /\ Len(returned) = 2
    /\ returned[1].name = "HuEtAl" /\ returned[1].kind = "Model"
    /\ returned[2].name = "LucasCoordConv" /\ returned[2].kind = "Model"
    /\ Len(OfKind(returned[2], "Conv1D")) = 4

(***************************************************************************)
(* C8: the graph a call returns consists of layers created in that call,   *)
(* shares no layer with the graph of another call, and has the structure   *)
(* of every other graph returned for the same name; a step changes no      *)
(* layer and no result that already exists.                                *)
(***************************************************************************)
C8_FreshState ==
    \A i \in Models :
        /\ GraphOf(returned[i]) \subseteq Built(returned[i])
        /\ \A j \in Models :
              /\ i # j => GraphOf(returned[i]) \cap GraphOf(returned[j]) = {}
              /\ returned[i].name = returned[j].name =>
                    /\ Canon(returned[i]) = Canon(returned[j])
                    /\ returned[i].inputs - returned[i].first
                         = returned[j].inputs - returned[j].first
                    /\ returned[i].outputs - returned[i].first
                         = returned[j].outputs - returned[j].first

C8_Frame ==
    /\ \A n \in DOMAIN layers : n \in DOMAIN layers' /\ layers'[n] = layers[n]
    /\ \A i \in DOMAIN returned : i \in DOMAIN returned' /\ returned'[i] = returned[i]

\* C8: fresh graphs in every state, and no step changes what exists.
C8_Fresh == []C8_FreshState /\ [][C8_Frame]_vars

C8_Witness ==
    /\ Len(returned) = 2
    /\ returned[1].name = "LucasCNN" /\ returned[1].kind = "Model"
    /\ returned[2].name = "LucasCNN" /\ returned[2].kind = "Model"
    /\ returned[2].first = returned[1].last + 1

(***************************************************************************)
(* C9: only a LucasCoordConv call imports coord.  Calls with the other     *)
(* four names and with unrecognized names import nothing and never raise,  *)
(* whether coord can be imported or not, and their graphs hold no          *)
(* coordinate channel.  A LucasCoordConv call imports coord, returns a     *)
(* graph exactly when the import succeeds, and in that graph the           *)
(* coordinate channel takes the input and feeds the first convolution.     *)
(***************************************************************************)
C9_Collaborator ==
    /\ \A i \in DOMAIN returned :
          LET r == returned[i]
          IN  /\ r.name # "LucasCoordConv" =>
                    /\ r.imports = <<>>
                    /\ r.kind = IF r.name \in RecognizedNames THEN "Model" ELSE "None"
                    /\ OfKind(r, "CoordinateChannel1D") = <<>>
              /\ r.name = "LucasCoordConv" =>
                    /\ r.imports = <<"coord">>
                    /\ r.kind = IF coord_importable THEN "Model" ELSE "raised"
                    /\ ~coord_importable => r.exc = "ImportError" /\ Built(r) = {}
                    /\ r.kind = "Model" =>
                          /\ Len(OfKind(r, "CoordinateChannel1D")) = 1
                          /\ LET cc == OfKind(r, "CoordinateChannel1D")[1]
                                 convs == OfKind(r, "Conv1D")
                             IN  /\ layers[cc].inbound = <<r.inputs>>
                                 /\ layers[convs[1]].inbound = <<cc>>
                                 /\ \A k \in DOMAIN convs : cc < convs[k]
    /\ "coord" \in sys_modules <=>
          \E i \in Models : returned[i].name = "LucasCoordConv"

C9_Witness ==
    /\ ~coord_importable
    /\ Len(returned) = 2
    /\ returned[1].name = "LucasCoordConv" /\ returned[1].exc = "ImportError"
    /\ returned[2].name = "LucasResNet" /\ returned[2].kind = "Model"

====
